---- MODULE Spec2Model ----
(***************************************************************************)
(* A model of the Animalia ETL pipeline: the Pydantic schema validator     *)
(* (validate.py), the normalizer (transform.py), the single-species fetch  *)
(* (fetch.py), the send client (send.py) and the orchestrator with its     *)
(* entry point (main.py), with the data/raw and data/processed directories *)
(* as state.                                                               *)
(***************************************************************************)
EXTENDS Integers, Sequences, FiniteSets, TLC

(***************************************************************************)
(* Bounds of the model.                                                    *)
(***************************************************************************)
\* longest input array handed to validate_animals by the unit-test harness
MaxLen == 2
\* longest input array in the runs that share one output directory
MaxDirLen == 2
\* run_pipeline calls made one after the other on the same data directories
MaxRuns == 2
\* runs of validate.py made one after the other on the same input file
MaxInvocations == 3
\* longest animals_validated.json handed to send_animals_to_api by its tests
MaxSendLen == 2
\* longest raw list handed to transform_gbif_species by its tests
MaxRawLen == 3
\* longest list of families handed to fetch_all_animals_for_families
MaxFamilies == 2
\* largest per_family
MaxPerFamily == 2
\* largest max_records
MaxRecords == 2
\* most records in one page of the species search
MaxPage == 2

(***************************************************************************)
(* JSON values.  A value is a tagged record; a mapping (JSON object used   *)
(* as a record) is a function from a subset of the key names to values.    *)
(***************************************************************************)
Null == [t |-> "null", v |-> ""]
Str(s) == [t |-> "str", v |-> s]
Int123 == [t |-> "int", v |-> "123"]
\* marks a key that the mapping does not hold (never a value of a mapping)
Missing == [t |-> "absent", v |-> ""]

\* Python truthiness of a JSON value: None and "" are falsy
Truthy(x) == ~(x.t = "null" \/ (x.t = "str" /\ x.v = ""))

\* a mapping from a total description: keys described as Missing are left out
MkMap(f) == [k \in {x \in DOMAIN f : f[x] # Missing} |-> f[k]]

\* an item of an input array is a mapping unless it is a bare value
IsMapping(item) == DOMAIN item # {"t", "v"}

\* dict.get(key): None when the key is absent
Get(item, key) == IF key \in DOMAIN item THEN item[key] ELSE Null

(***************************************************************************)
(* AnimalModel (validate.py): nine fields, nom required, the rest          *)
(* Optional[str] defaulting to None, statutUICN checked by statut_ok.      *)
(***************************************************************************)
Fields ==
    <<"nom", "nom_commun", "rang", "statutUICN", "ordre", "famille", "genre",
      "descriptions", "imageUrl">>

FieldSet == {Fields[i] : i \in 1..Len(Fields)}

statuts_valides == <<"EX", "EW", "CR", "EN", "VU", "NT", "LC", "DD">>

StatutSet == {statuts_valides[i] : i \in 1..Len(statuts_valides)}

\* the membership test inverted ("v in statuts_valides")
statut_raises_Inverted(v) == Truthy(v) /\ v.v \in StatutSet

\* statut_ok raises ValueError exactly when this holds (v is a str or None here)
statut_raises(v) == Truthy(v) /\ v.v \notin StatutSet

ErrLine(loc, type, msg, input) == [loc |-> loc, type |-> type, msg |-> msg, input |-> input]

\* the type check of one field: <<>> or the one error line pydantic reports
TypeErrors(item, f) ==
    IF f \notin DOMAIN item
    THEN IF f = "nom"
         THEN <<ErrLine(f, "missing", "Field required", Missing)>>
         ELSE <<>>
    ELSE IF item[f].t = "str" \/ (f # "nom" /\ item[f].t = "null")
         THEN <<>>
         ELSE <<ErrLine(f, "string_type", "Input should be a valid string", item[f])>>

\* the field validator runs after the type check passed, on a supplied value only
ValidatorErrors(item, f) ==
    IF f = "statutUICN" /\ f \in DOMAIN item /\ TypeErrors(item, f) = <<>>
       /\ statut_raises(item[f])
    THEN <<ErrLine(f, "value_error", "Value error, Statut UICN inconnu", item[f])>>
    ELSE <<>>

FieldErrors(item, f) == TypeErrors(item, f) \o ValidatorErrors(item, f)

RECURSIVE ErrorsFrom(_, _)
ErrorsFrom(item, i) ==
    IF i > Len(Fields) THEN <<>>
    ELSE FieldErrors(item, Fields[i]) \o ErrorsFrom(item, i + 1)

\* every field is checked; the errors are reported in field order
ErrorsOf(item) == ErrorsFrom(item, 1)

\* AnimalModel(**item).model_dump(): the nine fields, absent ones None,
\* keys that are no field of the model dropped
\* a variant of the dump that hands back the input mapping as it came
ModelDump_InputAsIs(item) == item

ModelDump(item) == [f \in FieldSet |-> Get(item, f)]

(***************************************************************************)
(* Files.  A file is absent, holds bytes that are no JSON ("garbage"), or  *)
(* holds a JSON document: a bare scalar, an array of items, the empty      *)
(* object, or an object holding one non-empty mapping (kept in items).     *)
(* "unreadable" is a file whose read raises another OSError.               *)
(***************************************************************************)
File(kind, items) == [kind |-> kind, items |-> items]
Absent == File("absent", <<>>)
Unreadable == File("unreadable", <<>>)
Garbage == File("garbage", <<>>)
JsonScalar == File("scalar", <<>>)
JsonArray(items) == File("array", items)
EmptyObject == File("empty_object", <<>>)
JsonObject(m) == File("object", <<m>>)

\* the keys of a mapping as strings, one after the other
RECURSIVE KeysSeq(_)
KeysSeq(S) ==
    IF S = {} THEN <<>>
    ELSE LET k == CHOOSE x \in S : TRUE
         IN  <<Str(k)>> \o KeysSeq(S \ {k})

\* what "for ... in enumerate(data)" goes through: the items of an array,
\* the keys of an object
Iterate(file) ==
    IF file.kind = "object" THEN KeysSeq(DOMAIN file.items[1]) ELSE file.items

\* Path.exists()
Exists(f) == f.kind # "absent"

(***************************************************************************)
(* validate_animals (validate.py), step 2: the loop over the records.      *)
(***************************************************************************)
\* str(e): pydantic's error lines for a mapping, the TypeError of ** otherwise
ErrorText(item) ==
    IF IsMapping(item)
    THEN ErrorsOf(item)
    ELSE <<ErrLine("", "type_error", "argument after ** must be a mapping", item)>>

\* type(e).__name__
ErrorTypeName(item) == IF IsMapping(item) THEN "ValidationError" ELSE "TypeError"

\* the position counted from one
ErrorRecord_OneBased(index, item) ==
    [index |-> index + 1, record |-> item, error |-> ErrorText(item),
     error_type |-> ErrorTypeName(item)]

\* the validator's ValueError reported under its own name, not pydantic's
ErrorRecord_RawValueError(index, item) ==
    [index |-> index, record |-> item, error |-> ErrorText(item),
     error_type |->
        IF \E n \in 1..Len(ErrorText(item)) : ErrorText(item)[n].type = "value_error"
        THEN "ValueError"
        ELSE ErrorTypeName(item)]

\* the entry appended to errors for the item at zero-based position index
ErrorRecord(index, item) ==
    [index |-> index, record |-> item, error |-> ErrorText(item),
     error_type |-> ErrorTypeName(item)]

\* AnimalModel(**item) succeeds
Accepts(item) == IsMapping(item) /\ ErrorsOf(item) = <<>>

\* the dump appended outside the try, for a rejected mapping as well
LoopBody_AppendsBoth(items, i, validated, errors) ==
    IF Accepts(items[i])
    THEN [validated |-> Append(validated, ModelDump(items[i])), errors |-> errors,
          raised |-> FALSE]
    ELSE [validated |-> Append(validated, ModelDump(items[i])),
          errors |-> Append(errors, ErrorRecord(i - 1, items[i])),
          raised |-> ~IsMapping(items[i])]

\* one iteration of the loop body on items[i] (i is 1-based, index = i - 1):
\* the new validated and errors lists, and whether the except handler itself
\* raised (item.get on an item that is no mapping)
LoopBody(items, i, validated, errors) ==
    IF Accepts(items[i])
    THEN [validated |-> Append(validated, ModelDump(items[i])), errors |-> errors,
          raised |-> FALSE]
    ELSE [validated |-> validated,
          errors |-> Append(errors, ErrorRecord(i - 1, items[i])),
          raised |-> ~IsMapping(items[i])]

\* a loop that stops at the first rejected record
RECURSIVE Loop_Break(_, _, _, _)
Loop_Break(items, i, validated, errors) ==
    IF i > Len(items)
    THEN [validated |-> validated, errors |-> errors, raised |-> FALSE]
    ELSE IF Accepts(items[i])
         THEN Loop_Break(items, i + 1, Append(validated, ModelDump(items[i])), errors)
         ELSE [validated |-> validated,
               errors |-> Append(errors, ErrorRecord(i - 1, items[i])),
               raised |-> ~IsMapping(items[i])]

RECURSIVE Loop(_, _, _, _)
Loop(items, i, validated, errors) ==
    IF i > Len(items)
    THEN [validated |-> validated, errors |-> errors, raised |-> FALSE]
    ELSE LET r == LoopBody(items, i, validated, errors)
         IN  IF r.raised THEN r ELSE Loop(items, i + 1, r.validated, r.errors)

(***************************************************************************)
(* validate_animals, whole: read (step 1), loop (step 2), export (step 4). *)
(* io is what the file system does to the writes of step 4.                *)
(***************************************************************************)
WriteOutcomes == {"ok", "validated_unwritable", "validated_truncated", "errors_unwritable"}

\* what the file system does to the read of a file that is on disk
ReadOutcomes == {"ok", "os_error"}

\* step 1 returns early: missing file, JSON decode error, another error of the
\* read, or len() of a scalar
ReadFails(file) == file.kind \in {"absent", "garbage", "unreadable", "scalar"}

\* animals_validated.json after step 4
WriteValidated(validated, io, old) ==
    CASE io = "validated_unwritable" -> old
      [] io = "validated_truncated" -> Garbage
      [] OTHER -> JsonArray(validated)

\* a variant of the write that adds the errors to those the file holds
WriteErrors_Appends(errors, io, old) ==
    IF errors # <<>> /\ io \in {"ok"}
    THEN JsonArray((IF old.kind = "array" THEN old.items ELSE <<>>) \o errors)
    ELSE old

\* animals_validation_errors.json after step 4: written only "if errors"
WriteErrors(errors, io, old) ==
    IF errors # <<>> /\ io \in {"ok"}
    THEN JsonArray(errors)
    ELSE old

\* step 4 ends in its except branch (the errors file is written only "if errors")
WriteFails(errors, io) ==
    io \in {"validated_unwritable", "validated_truncated"}
        \/ (io = "errors_unwritable" /\ errors # <<>>)

\* the call's outcome, the logger.error it emitted, and the two output files after it
validate_animals(file, io, old_validated, old_errors) ==
    IF ReadFails(file)
    THEN [status |-> "aborted", log |-> "read_error", accepted |-> <<>>, rejected |-> <<>>,
          validated_file |-> old_validated, errors_file |-> old_errors]
    ELSE LET r == Loop(Iterate(file), 1, <<>>, <<>>)
         IN  IF r.raised
             THEN [status |-> "raised", log |-> "", accepted |-> r.validated,
                   rejected |-> r.errors,
                   validated_file |-> old_validated, errors_file |-> old_errors]
             ELSE [status |-> "returned",
                   log |-> IF WriteFails(r.errors, io) THEN "write_error" ELSE "",
                   accepted |-> r.validated, rejected |-> r.errors,
                   validated_file |-> WriteValidated(r.validated, io, old_validated),
                   errors_file |-> WriteErrors(r.errors, io, old_errors)]

(***************************************************************************)
(* transform_gbif_species (transform.py).                                  *)
(***************************************************************************)
\* x or None
OrNone(x) == IF Truthy(x) THEN x ELSE Null

\* the keys of the dict literal "record", in the order it lists them
RecordKeys ==
    <<"nom", "nom_commun", "rang", "statutUICN", "ordre", "famille", "genre",
      "descriptions", "imageUrl">>

\* a variant of the record whose statutUICN is a placeholder text
NormalRecord_StatutPlaceholder(item, nom_sci) ==
    [nom |-> nom_sci,
     nom_commun |-> OrNone(Get(item, "vernacularName")),
     rang |-> Get(item, "rank"),
     statutUICN |-> Str("unknown"),
     ordre |-> OrNone(Get(item, "order")),
     famille |-> OrNone(Get(item, "family")),
     genre |-> OrNone(Get(item, "genus")),
     descriptions |-> OrNone(Get(item, "description")),
     imageUrl |-> Null]

\* the normalized record built from a raw item whose scientificName is nom_sci
NormalRecord(item, nom_sci) ==
    [nom |-> nom_sci,
     nom_commun |-> OrNone(Get(item, "vernacularName")),
     rang |-> Get(item, "rank"),
     statutUICN |-> Null,
     ordre |-> OrNone(Get(item, "order")),
     famille |-> OrNone(Get(item, "family")),
     genre |-> OrNone(Get(item, "genus")),
     descriptions |-> OrNone(Get(item, "description")),
     imageUrl |-> Null]

\* a variant of the loop that does not look into seen
RECURSIVE TransformFrom_NoDedup(_, _, _, _)
TransformFrom_NoDedup(raw_data, i, records, seen) ==
    IF i > Len(raw_data) THEN [records |-> records, raised |-> FALSE]
    ELSE IF ~IsMapping(raw_data[i]) THEN [records |-> records, raised |-> TRUE]
    ELSE LET nom_sci == Get(raw_data[i], "scientificName")
         IN  IF ~Truthy(nom_sci)
             THEN TransformFrom_NoDedup(raw_data, i + 1, records, seen)
             ELSE TransformFrom_NoDedup(raw_data, i + 1,
                                        Append(records, NormalRecord(raw_data[i], nom_sci)),
                                        seen \cup {nom_sci})

\* the loop over raw_data from position i on; item.get raises on an item
\* that is no mapping
RECURSIVE TransformFrom(_, _, _, _)
TransformFrom(raw_data, i, records, seen) ==
    IF i > Len(raw_data) THEN [records |-> records, raised |-> FALSE]
    ELSE IF ~IsMapping(raw_data[i]) THEN [records |-> records, raised |-> TRUE]
    ELSE LET nom_sci == Get(raw_data[i], "scientificName")
         IN  IF ~Truthy(nom_sci) \/ nom_sci \in seen
             THEN TransformFrom(raw_data, i + 1, records, seen)
             ELSE TransformFrom(raw_data, i + 1,
                                Append(records, NormalRecord(raw_data[i], nom_sci)),
                                seen \cup {nom_sci})

transform_gbif_species(raw_data) == TransformFrom(raw_data, 1, <<>>, {})

(***************************************************************************)
(* fetch_gbif_animal_detail (fetch.py): the raw file of the species after  *)
(* the call, and whether the call raised.                                  *)
(***************************************************************************)
FetchOutcomes ==
    {"search_error", "search_not_json", "no_result", "detail_error", "write_error",
     "write_truncated", "ok"}

\* response.json() of the search sits outside every try
FetchRaises(outcome) == outcome = "search_not_json"

\* what the call logged last: the info line of the save, the warning of an
\* empty search result, or one of its error lines
FetchLog(outcome) ==
    CASE outcome = "ok" -> "saved"
      [] outcome = "no_result" -> "no_result"
      [] outcome \in {"search_error", "detail_error"} -> "network_error"
      [] outcome \in {"write_error", "write_truncated"} -> "write_error"
      [] OTHER -> ""

fetch_gbif_animal_detail(outcome, detail, old_raw) ==
    CASE outcome = "ok" -> JsonObject(detail)
      [] outcome = "write_truncated" -> Garbage
      [] OTHER -> old_raw

(***************************************************************************)
(* send_animals_to_api (send.py): one POST per animal; outcomes[i] is what *)
(* the POST of position i meets: a response with a status code, or an      *)
(* exception of requests.post.                                             *)
(***************************************************************************)
Response(status_code) == [kind |-> "response", status_code |-> status_code]

\* requests.post raises; there is no status code (0 stands for none)
Raises(exception) == [kind |-> exception, status_code |-> 0]

StatusCodes == {200, 201, 204, 400, 500}

SendOutcomes ==
    {Response(c) : c \in StatusCodes}
        \cup {Raises("Timeout"), Raises("ConnectionError"), Raises("Exception")}

\* resp.status_code in (200, 201)
IsSuccess(outcome) ==
    outcome.kind = "response" /\ outcome.status_code \in {200, 201}

\* the error_type of the entry appended for a failed attempt
ErrorType(outcome) ==
    CASE outcome.kind = "response" -> "HTTP_ERROR"
      [] outcome.kind = "Timeout" -> "TIMEOUT"
      [] outcome.kind = "ConnectionError" -> "CONNECTION_ERROR"
      [] OTHER -> "UNEXPECTED_ERROR"

\* the entry appended to error_list (status_code 0: the entry has no such key)
SendError(index, animal, outcome) ==
    [index |-> index, animal |-> animal, error_type |-> ErrorType(outcome),
     status_code |-> outcome.status_code]

\* a call requests.post(Config.API_URL, json=animal, ...) and what it met
Post(animal, outcome) == [animal |-> animal, outcome |-> outcome]

\* a variant of the loop that posts a failed animal a second time
RECURSIVE SendFrom_Retries(_, _, _, _, _, _)
SendFrom_Retries(animals, outcomes, i, posts, success_count, error_list) ==
    IF i > Len(animals)
    THEN [posts |-> posts, success_count |-> success_count, error_list |-> error_list,
          raised |-> FALSE]
    ELSE IF ~IsMapping(animals[i])
    THEN [posts |-> posts, success_count |-> success_count, error_list |-> error_list,
          raised |-> TRUE]
    ELSE IF IsSuccess(outcomes[i])
    THEN SendFrom_Retries(animals, outcomes, i + 1, Append(posts, Post(animals[i], outcomes[i])),
                          success_count + 1, error_list)
    ELSE SendFrom_Retries(animals, outcomes, i + 1,
                          Append(Append(posts, Post(animals[i], outcomes[i])),
                                 Post(animals[i], outcomes[i])),
                          success_count,
                          Append(error_list, SendError(i - 1, animals[i], outcomes[i])))

\* the loop from position i on; posts are the calls of requests.post made
\* so far; animal.get raises on an item that is no mapping
RECURSIVE SendFrom(_, _, _, _, _, _)
SendFrom(animals, outcomes, i, posts, success_count, error_list) ==
    IF i > Len(animals)
    THEN [posts |-> posts, success_count |-> success_count, error_list |-> error_list,
          raised |-> FALSE]
    ELSE IF ~IsMapping(animals[i])
    THEN [posts |-> posts, success_count |-> success_count, error_list |-> error_list,
          raised |-> TRUE]
    ELSE IF IsSuccess(outcomes[i])
    THEN SendFrom(animals, outcomes, i + 1, Append(posts, Post(animals[i], outcomes[i])),
                  success_count + 1, error_list)
    ELSE SendFrom(animals, outcomes, i + 1, Append(posts, Post(animals[i], outcomes[i])), success_count,
                  Append(error_list, SendError(i - 1, animals[i], outcomes[i])))

\* what the file system does to the write of send_errors.json
SendWrites == {"ok", "unwritable", "truncated"}

\* send_errors.json after step 4: written only "if error_list"
WriteSendErrors(error_list, write, old) ==
    IF error_list = <<>> THEN old
    ELSE CASE write = "ok" -> JsonArray(error_list)
           [] write = "truncated" -> Garbage
           [] OTHER -> old

\* the last line step 4 logs
SendLog(error_list, write) ==
    IF error_list = <<>> THEN "all_sent"
    ELSE IF write = "ok" THEN "report_written" ELSE "write_error"

\* the call's outcome, its POSTs and counters, the last line it logged and
\* send_errors.json after it
send_animals_to_api(file, outcomes, write, old_errors) ==
    IF ReadFails(file)
    THEN [status |-> "aborted", log |-> "read_error", posts |-> <<>>, success_count |-> 0,
          error_list |-> <<>>, send_errors_file |-> old_errors]
    ELSE LET r == SendFrom(Iterate(file), outcomes, 1, <<>>, 0, <<>>)
         IN  IF r.raised
             THEN [status |-> "raised", log |-> "", posts |-> r.posts,
                   success_count |-> r.success_count, error_list |-> r.error_list,
                   send_errors_file |-> old_errors]
             ELSE [status |-> "returned", log |-> SendLog(r.error_list, write),
                   posts |-> r.posts, success_count |-> r.success_count,
                   error_list |-> r.error_list,
                   send_errors_file |-> WriteSendErrors(r.error_list, write, old_errors)]

(***************************************************************************)
(* State.                                                                  *)
(***************************************************************************)
VARIABLES
    json_file,       \* content of the file at json_path of the latest validate_animals call
    vstatus,         \* "idle", or how the latest validate_animals call ended
    vlog,            \* the logger.error of the latest call: "", "read_error", "write_error"
    accepted,        \* the local list validated at the end of the latest call
    rejected,        \* the local list errors at the end of the latest call
    validated_file,  \* data/processed/animals_validated.json
    errors_file,     \* data/processed/animals_validation_errors.json
    invocations,     \* how many runs in a row validate.py made on json_file (re-runs)
    raw_data,        \* the argument of the latest transform_gbif_species call
    tstatus,         \* "idle", or how that call ended: "returned", "raised"
    transformed,     \* what that call returned
    send_status,     \* "idle", or how the latest send_animals_to_api call ended
    send_log,        \* the last line that call logged
    posted,          \* the animals that call handed to requests.post, in order
    post_outcomes,   \* what each of these POSTs met, in the same order
    success_count,   \* its success_count at the end
    error_list,      \* its error_list at the end
    send_errors_file,\* data/processed/send_errors.json
    pc,              \* where run_pipeline stands: "idle", the stage to run next, "done"
    argv,            \* the positional arguments main.py was started with
    animal_name,     \* the argument of the run_pipeline call in progress
    invoked,         \* the stage functions this run has called, in call order
    result,          \* "none" while running, then what run_pipeline returned
    failed_stage,    \* the stage whose block returned False, or ""
    exit_code,       \* <<>> while main.py runs, then <<c>> with c handed to sys.exit
    raw_file,        \* data/raw/gbif_<name>.json, per name
    transformed_file,\* data/processed/<name>_transformed.json, per name
    fetch_log,       \* what fetch_gbif_animal_detail logged last in this run, "" before
    runs,            \* the number of main.py runs started so far
    families,        \* fetch_all_animals_for_families: its argument families
    per_family,      \* its argument per_family
    max_records,     \* its argument max_records
    fpc,             \* where the call stands: "idle", "loop", "export", "done"
    family_index,    \* the position in families of the family of the for loop
    all_species,     \* the local all_species
    offset,          \* the local offset
    fetched,         \* the local fetched
    results_by_family, \* the local results_by_family
    batch_file,      \* data/raw/gbif_full_batch.json
    batch_log,       \* "", then what the export logged: "exported", "write_error"
    scanned,         \* records the API returned for this family in the pages added so far
    trace            \* per family handled: all_species, offset and whether a request failed

vvars ==
    <<json_file, vstatus, vlog, accepted, rejected, validated_file, errors_file,
      invocations>>

tvars == <<raw_data, tstatus, transformed>>

svars ==
    <<send_status, send_log, posted, post_outcomes, success_count, error_list,
      send_errors_file>>

pvars ==
    <<pc, argv, animal_name, invoked, result, failed_stage, exit_code, raw_file,
      transformed_file, fetch_log, runs>>

fvars ==
    <<families, per_family, max_records, fpc, family_index, all_species, offset, fetched,
      results_by_family, batch_file, batch_log, scanned, trace>>

vars == <<vvars, tvars, svars, pvars, fvars>>

(***************************************************************************)
(* Inputs.                                                                 *)
(***************************************************************************)
RECURSIVE SeqsUpTo(_, _)
SeqsUpTo(S, n) ==
    IF n = 0 THEN {<<>>}
    ELSE LET shorter == SeqsUpTo(S, n - 1)
         IN  shorter \cup {Append(q, x) : q \in {p \in shorter : Len(p) = n - 1}, x \in S}

NomChoices == {Missing, Null, Str(""), Str("Cervus elaphus"), Int123}
StatutChoices == {Missing, Null, Str(""), Str("LC"), Str("XX"), Int123}

ProductMappings ==
    {MkMap([nom |-> n, rang |-> Str("species"), statutUICN |-> s]) :
        n \in NomChoices, s \in StatutChoices}

\* TestValidate.setUp: valid_data[0] and invalid_data[0] (nom_commum is no field)
valid_data ==
    [nom |-> Str("Cervus elaphus"), nom_commum |-> Str("Cerf elaphe"),
     rang |-> Str("species"), statutUICN |-> Str("LC"), ordre |-> Str("Artiodactyla"),
     famille |-> Str("Cervidae"), genre |-> Str("Cervus"),
     descriptions |-> Str("Grand mammifere europeen."), imageUrl |-> Null]

invalid_data ==
    [nom |-> Str("Bizarre fish"), nom_commum |-> Int123, rang |-> Str("species"),
     statutUICN |-> Str("XX"), ordre |-> Null, famille |-> Null, genre |-> Null,
     descriptions |-> Str(""), imageUrl |-> Null]

WrongTypeMappings ==
    {[nom |-> Str("Cervus elaphus"), rang |-> Int123],
     [nom |-> Str("Cervus elaphus"), imageUrl |-> Int123, statutUICN |-> Str("XX")]}

Mappings == ProductMappings \cup {valid_data, invalid_data} \cup WrongTypeMappings

\* items of an input array: mappings, and one item that is no mapping
Items == Mappings \cup {Int123}

\* what the file at json_path may hold
InputFiles(items, n) ==
    {Absent, Unreadable, Garbage, JsonScalar, EmptyObject, JsonObject(valid_data)}
        \cup {JsonArray(q) : q \in SeqsUpTo(items, n)}

(***************************************************************************)
(* Actions on the validator alone.                                         *)
(***************************************************************************)
\* validate_animals(json_path, output_dir) on a file holding `file`
CallValidate(file, io) ==
    LET r == validate_animals(file, io, validated_file, errors_file)
    IN  /\ json_file' = file
        /\ vstatus' = r.status
        /\ vlog' = r.log
        /\ accepted' = r.accepted
        /\ rejected' = r.rejected
        /\ validated_file' = r.validated_file
        /\ errors_file' = r.errors_file

\* the species the orchestrator is run for
Names == {"Cervus elaphus", "Panthera tigris"}

\* no call made yet, empty data/raw and data/processed
Init ==
    /\ json_file = Absent
    /\ vstatus = "idle"
    /\ vlog = ""
    /\ accepted = <<>>
    /\ rejected = <<>>
    /\ validated_file = Absent
    /\ errors_file = Absent
    /\ invocations = 0
    /\ raw_data = <<>>
    /\ tstatus = "idle"
    /\ transformed = <<>>
    /\ send_status = "idle"
    /\ send_log = ""
    /\ posted = <<>>
    /\ post_outcomes = <<>>
    /\ success_count = 0
    /\ error_list = <<>>
    /\ send_errors_file = Absent
    /\ pc = "idle"
    /\ argv = <<>>
    /\ animal_name = ""
    /\ invoked = <<>>
    /\ result = "none"
    /\ failed_stage = ""
    /\ exit_code = <<>>
    /\ raw_file = [n \in Names |-> Absent]
    /\ transformed_file = [n \in Names |-> Absent]
    /\ fetch_log = ""
    /\ runs = 0
    /\ families = <<>>
    /\ per_family = 0
    /\ max_records = 0
    /\ fpc = "idle"
    /\ family_index = 1
    /\ all_species = <<>>
    /\ offset = 0
    /\ fetched = 0
    /\ results_by_family = <<>>
    /\ batch_file = Absent
    /\ batch_log = ""
    /\ scanned = 0
    /\ trace = <<>>

\* a test of test_validate.py: one call into the directory setUp/tearDown left
TestValidate ==
    /\ vstatus = "idle"
    /\ \E file \in InputFiles(Items, MaxLen), io \in WriteOutcomes : CallValidate(file, io)
    /\ UNCHANGED invocations
    /\ UNCHANGED <<tvars, svars, pvars, fvars>>

\* TestValidate.tearDown: the input and both output files are unlinked
TearDown ==
    /\ vstatus # "idle"
    /\ json_file' = Absent
    /\ vstatus' = "idle"
    /\ vlog' = ""
    /\ accepted' = <<>>
    /\ rejected' = <<>>
    /\ validated_file' = Absent
    /\ errors_file' = Absent
    /\ invocations' = 0
    /\ UNCHANGED <<tvars, svars, pvars, fvars>>

NextValidate == TestValidate \/ TearDown

SpecValidate == Init /\ [][NextValidate]_vars

(***************************************************************************)
(* Runs of validate.py one after the other into the same output directory, *)
(* nothing removed between them.                                           *)
(***************************************************************************)
DirItems == {valid_data, invalid_data, [rang |-> Str("species")]}

RunValidate ==
    /\ \E file \in InputFiles(DirItems, MaxDirLen), io \in WriteOutcomes :
            CallValidate(file, io)
    /\ UNCHANGED <<invocations, tvars, svars, pvars, fvars>>

NextDir == RunValidate

SpecDir == Init /\ [][NextDir]_vars

(***************************************************************************)
(* validate.py run on an input file, then run again on the same file.      *)
(***************************************************************************)
FirstRun ==
    /\ vstatus = "idle"
    /\ \E file \in InputFiles(DirItems, MaxDirLen), io \in WriteOutcomes :
            CallValidate(file, io)
    /\ invocations' = 1
    /\ UNCHANGED <<tvars, svars, pvars, fvars>>

Rerun ==
    /\ vstatus # "idle"
    /\ invocations < MaxInvocations
    /\ \E io \in WriteOutcomes : CallValidate(json_file, io)
    /\ invocations' = invocations + 1
    /\ UNCHANGED <<tvars, svars, pvars, fvars>>

NextRerun == FirstRun \/ Rerun

SpecRerun == Init /\ [][NextRerun]_vars

(***************************************************************************)
(* run_pipeline (main.py), one action per stage block.                     *)
(***************************************************************************)
\* what the GBIF detail request may answer for a species: a full record, a
\* record without scientificName, a record whose rank is no string
RawDetails(n) ==
    {[scientificName |-> Str(n), vernacularName |-> Str(""), rank |-> Str("species"),
      family |-> Str("Cervidae")],
     [rank |-> Str("species"), family |-> Str("Cervidae")],
     [scientificName |-> Str(n), rank |-> Int123]}

\* "return False" out of the block of `stage`
Fail(stage) ==
    /\ pc' = "done"
    /\ result' = "False"
    /\ failed_stage' = stage

\* a variant of Proceed that jumps to the last block whatever block passed
Proceed_SkipsAhead(stage) ==
    /\ pc' = "send"
    /\ UNCHANGED <<result, failed_stage>>

\* the block passed: on to the block of `stage`
Proceed(stage) ==
    /\ pc' = stage
    /\ UNCHANGED <<result, failed_stage>>

\* sys.argv[1:] of a start of main.py
Argvs == {<<>>, <<"Panthera tigris", "Cervus elaphus">>} \cup {<<n>> : n \in Names}

\* the species main.py runs the pipeline for
AnimalName(args) == IF Len(args) > 0 THEN args[1] ELSE "Cervus elaphus"

\* main.py is started and calls run_pipeline(animal_name); the files earlier
\* runs left stay on disk
StartRun ==
    /\ pc = "idle" \/ (pc = "done" /\ exit_code # <<>>)
    /\ runs < MaxRuns
    /\ runs' = runs + 1
    /\ \E args \in Argvs :
            /\ argv' = args
            /\ animal_name' = AnimalName(args)
    /\ pc' = "fetch"
    /\ invoked' = <<>>
    /\ result' = "none"
    /\ failed_stage' = ""
    /\ exit_code' = <<>>
    /\ fetch_log' = ""
    /\ raw_data' = <<>>
    /\ tstatus' = "idle"
    /\ transformed' = <<>>
    /\ send_status' = "idle"
    /\ send_log' = ""
    /\ posted' = <<>>
    /\ post_outcomes' = <<>>
    /\ success_count' = 0
    /\ error_list' = <<>>
    /\ UNCHANGED <<vvars, fvars, raw_file, transformed_file, send_errors_file>>

\* step 1: fetch_gbif_animal_detail, then the check that the raw file exists
FetchStage ==
    /\ pc = "fetch"
    /\ invoked' = Append(invoked, "fetch")
    /\ \E outcome \in FetchOutcomes, detail \in RawDetails(animal_name) :
            LET new == fetch_gbif_animal_detail(outcome, detail, raw_file[animal_name])
            IN  /\ raw_file' = [raw_file EXCEPT ![animal_name] = new]
                /\ fetch_log' = FetchLog(outcome)
                /\ IF FetchRaises(outcome) \/ ~Exists(new)
                   THEN Fail("fetch")
                   ELSE Proceed("transform")
    /\ UNCHANGED <<vvars, tvars, svars, fvars, argv, animal_name, exit_code, transformed_file,
                   runs>>

TransformWrites == {"ok", "unwritable"}

\* the transformed file after export_to_json, which raises unless the write is ok
ExportToJson(data, write, old) == IF write = "ok" THEN JsonArray(data) ELSE old

\* transform_gbif_species(raw) is called and ends
CallTransform(raw) ==
    LET t == transform_gbif_species(raw)
    IN  /\ raw_data' = raw
        /\ tstatus' = IF t.raised THEN "raised" ELSE "returned"
        /\ transformed' = IF t.raised THEN <<>> ELSE t.records

\* step 2: json.load of the raw file, transform_gbif_species([gbif_data]),
\* export_to_json; any exception returns False
TransformStage ==
    /\ pc = "transform"
    /\ IF raw_file[animal_name].kind # "object"
       THEN /\ Fail("transform")
            /\ UNCHANGED <<invoked, tvars, transformed_file>>
       ELSE LET raw == <<raw_file[animal_name].items[1]>>
                t == transform_gbif_species(raw)
            IN  /\ invoked' = Append(invoked, "transform")
                /\ CallTransform(raw)
                /\ IF t.raised
                   THEN /\ Fail("transform")
                        /\ UNCHANGED transformed_file
                   ELSE \E write \in TransformWrites :
                            /\ transformed_file' =
                                    [transformed_file EXCEPT ![animal_name] =
                                        ExportToJson(t.records, write, @)]
                            /\ IF write = "ok" THEN Proceed("validate")
                               ELSE Fail("transform")
    /\ UNCHANGED <<vvars, svars, fvars, argv, animal_name, exit_code, raw_file, fetch_log, runs>>

\* the file names of the artifacts under data/processed
TransformedName(name) == <<name, "_transformed.json">>

ValidatedName == <<"animals_validated.json">>

ErrorsName == <<"animals_validation_errors.json">>

SendErrorsName == <<"send_errors.json">>

\* a variant of the writes where the content lands in every file looked at
WriteTo_Anywhere(names, content, other, old) == content

\* what the file called `other` holds after a stage opened the files `names`
\* for writing, `content` being what `other` holds if it is one of them
WriteTo(names, content, other, old) == IF other \in names THEN content ELSE old

\* the checks of step 3 on animals_validated.json: it exists, parses, and holds
\* at least one animal
ValidatedUsable(file) == file.kind = "array" /\ file.items # <<>>

\* step 3: validate_animals on the transformed file, then the checks
ValidateStage ==
    /\ pc = "validate"
    /\ invoked' = Append(invoked, "validate")
    /\ \E read \in ReadOutcomes, io \in WriteOutcomes :
            LET file == IF read = "ok" THEN transformed_file[animal_name] ELSE Unreadable
                r == validate_animals(file, io, validated_file, errors_file)
            IN  /\ CallValidate(file, io)
                /\ transformed_file' =
                        [transformed_file EXCEPT ![animal_name] =
                            WriteTo({ValidatedName, ErrorsName}, r.validated_file,
                                    TransformedName(animal_name), @)]
                /\ IF r.status # "raised" /\ ValidatedUsable(r.validated_file)
                   THEN Proceed("send")
                   ELSE Fail("validate")
    /\ UNCHANGED <<invocations, tvars, svars, fvars, argv, animal_name, exit_code, raw_file,
                   fetch_log, runs>>

\* send_animals_to_api(json_file_path) is called on a file holding `file` and ends
CallSend(file, outcomes, write) ==
    LET r == send_animals_to_api(file, outcomes, write, send_errors_file)
    IN  /\ send_status' = r.status
        /\ send_log' = r.log
        /\ posted' = [k \in 1..Len(r.posts) |-> r.posts[k].animal]
        /\ post_outcomes' = [k \in 1..Len(r.posts) |-> r.posts[k].outcome]
        /\ success_count' = r.success_count
        /\ error_list' = r.error_list
        /\ send_errors_file' = r.send_errors_file

\* a variant of the Send block that returns False when an attempt failed
SendBlockFails_OnFailedAttempt(r) == r.status = "raised" \/ r.error_list # <<>>

\* the Send block returns False only when send_animals_to_api raised
SendBlockFails(r) == r.status = "raised"

\* step 4: send_animals_to_api on animals_validated.json, then "return True"
SendStage ==
    /\ pc = "send"
    /\ invoked' = Append(invoked, "send")
    /\ \E read \in ReadOutcomes :
            LET file == IF read = "ok" THEN validated_file ELSE Unreadable
            IN  \E outcomes \in [1..Len(Iterate(file)) -> SendOutcomes], write \in SendWrites :
                    LET r == send_animals_to_api(file, outcomes, write, send_errors_file)
                    IN  /\ CallSend(file, outcomes, write)
                        /\ validated_file' =
                                WriteTo({SendErrorsName}, r.send_errors_file,
                                        ValidatedName, validated_file)
                        /\ IF SendBlockFails(r)
                           THEN Fail("send")
                           ELSE /\ pc' = "done"
                                /\ result' = "True"
                                /\ UNCHANGED failed_stage
    /\ UNCHANGED <<json_file, vstatus, vlog, accepted, rejected, errors_file, invocations,
                   tvars, fvars, argv, animal_name, exit_code, raw_file, transformed_file,
                   fetch_log, runs>>

\* a variant of the exit code with the two codes exchanged
ExitCode_Exchanged(success) == IF success THEN 1 ELSE 0

\* 0 if success else 1
ExitCode(success) == IF success THEN 0 ELSE 1

\* main.py ends: sys.exit with the code of what run_pipeline returned
Exit ==
    /\ pc = "done"
    /\ exit_code = <<>>
    /\ exit_code' = <<ExitCode(result = "True")>>
    /\ UNCHANGED <<vvars, tvars, svars, fvars, pc, argv, animal_name, invoked, result,
                   failed_stage, raw_file, transformed_file, fetch_log, runs>>

Next == StartRun \/ FetchStage \/ TransformStage \/ ValidateStage \/ SendStage \/ Exit

Spec == Init /\ [][Next]_vars

(***************************************************************************)
(* The tests of test_transform.py: transform_gbif_species on a raw list.   *)
(***************************************************************************)
\* test_transform_gbif_species: raw_data[0] and expected[0]
test_raw_data ==
    [scientificName |-> Str("Cervus elaphus"), vernacularName |-> Str("Cerf elaphe"),
     rank |-> Str("species"), order |-> Str("Artiodactyla"), family |-> Str("Cervidae"),
     genus |-> Str("Cervus"), description |-> Str("Le cerf elaphe est un grand cervide...")]

test_expected ==
    [nom |-> Str("Cervus elaphus"), nom_commum |-> Str("Cerf elaphe"),
     rang |-> Str("species"), statutUICN |-> Null, ordre |-> Str("Artiodactyla"),
     famille |-> Str("Cervidae"), genre |-> Str("Cervus"),
     descriptions |-> Str("Le cerf elaphe est un grand cervide..."), imageUrl |-> Null]

\* raw GBIF records: the one of the test, two with the same scientificName and different content,
\* one of another species, records whose scientificName is empty, null,
\* missing or no string, and an item that is no mapping
RawItems ==
    {test_raw_data,
     [scientificName |-> Str("Cervus elaphus"), rank |-> Str("species"),
      family |-> Str("Cervidae")],
     [scientificName |-> Str("Cervus elaphus"), rank |-> Str("subspecies"),
      family |-> Str("")],
     [scientificName |-> Str("Panthera tigris"), rank |-> Str("species")],
     [scientificName |-> Str(""), rank |-> Str("species")],
     [scientificName |-> Null, rank |-> Str("species")],
     [rank |-> Str("species"), family |-> Str("Cervidae")],
     [scientificName |-> Int123, rank |-> Str("species")],
     Int123}

\* a test: one call
TestTransform ==
    /\ tstatus = "idle"
    /\ \E raw \in SeqsUpTo(RawItems, MaxRawLen) : CallTransform(raw)
    /\ UNCHANGED <<vvars, svars, pvars, fvars>>

\* the test ends, its locals are gone
EndTransform ==
    /\ tstatus # "idle"
    /\ raw_data' = <<>>
    /\ tstatus' = "idle"
    /\ transformed' = <<>>
    /\ UNCHANGED <<vvars, svars, pvars, fvars>>

NextTransform == TestTransform \/ EndTransform

SpecTransform == Init /\ [][NextTransform]_vars

(***************************************************************************)
(* The tests of test_send.py: animals_validated.json is written,           *)
(* send_errors.json unlinked, send_animals_to_api called with              *)
(* requests.post patched; both files are unlinked at the end.              *)
(***************************************************************************)
SendItems == {[nom |-> Str("Cervus elaphus")], [nom |-> Str("Fake animal")], Int123}

\* what the file at json_file_path may hold
SendFiles ==
    {Absent, Unreadable, Garbage, JsonScalar, EmptyObject,
     JsonObject([nom |-> Str("Cervus elaphus")])}
        \cup {JsonArray(q) : q \in SeqsUpTo(SendItems, MaxSendLen)}

TestSend ==
    /\ send_status = "idle"
    /\ \E file \in SendFiles :
            \E outcomes \in [1..Len(Iterate(file)) -> SendOutcomes], write \in SendWrites :
                /\ validated_file' = file
                /\ CallSend(file, outcomes, write)
    /\ UNCHANGED <<json_file, vstatus, vlog, accepted, rejected, errors_file, invocations,
                   tvars, pvars, fvars>>

TearDownSend ==
    /\ send_status # "idle"
    /\ validated_file' = Absent
    /\ send_status' = "idle"
    /\ send_log' = ""
    /\ posted' = <<>>
    /\ post_outcomes' = <<>>
    /\ success_count' = 0
    /\ error_list' = <<>>
    /\ send_errors_file' = Absent
    /\ UNCHANGED <<json_file, vstatus, vlog, accepted, rejected, errors_file, invocations,
                   tvars, pvars, fvars>>

NextSend == TestSend \/ TearDownSend

SpecSend == Init /\ [][NextSend]_vars

(***************************************************************************)
(* fetch_all.py.  A scientificName is the sequence of its characters, so   *)
(* that the substring tests of is_legit_species are computed.              *)
(***************************************************************************)
Cervus_elaphus ==
    <<"C", "e", "r", "v", "u", "s", " ", "e", "l", "a", "p", "h", "u", "s">>

Corvus_corax ==
    <<"C", "o", "r", "v", "u", "s", " ", "c", "o", "r", "a", "x">>

Bacteria_sp ==
    <<"B", "a", "c", "t", "e", "r", "i", "a", " ", "s", "p", ".">>

\* str.lower() on the characters of the names above
Lower(c) ==
    CASE c = "B" -> "b"
      [] c = "C" -> "c"
      [] OTHER -> c

LowerSeq(name) == [i \in 1..Len(name) |-> Lower(name[i])]

excluded_terms ==
    <<<<"b", "a", "c", "t", "e", "r">>,
      <<"v", "i", "r", "u", "s">>,
      <<"f", "u", "n", "g">>,
      <<"i", "n", "c", "e", "r", "t", "a", "e">>,
      <<"u", "n", "c", "l", "a", "s", "s", "i", "f", "i", "e", "d">>,
      <<"u", "n", "i", "d", "e", "n", "t", "i", "f", "i", "e", "d">>,
      <<"s", "p", ".">>,
      <<"h", "y", "b", "r", ".">>>>

\* `term in name`
Contains(term, name) ==
    \E i \in 1..(Len(name) - Len(term) + 1) : SubSeq(name, i, i + Len(term) - 1) = term

\* entry.get("scientificName", "")
NameOf(entry) ==
    IF "scientificName" \in DOMAIN entry THEN entry["scientificName"] ELSE Str(<<>>)

\* .lower() exists on strings only
LegitRaises(entry) == NameOf(entry).t # "str"

is_legit_species(entry) ==
    LET name == LowerSeq(NameOf(entry).v)
    IN  \A k \in 1..Len(excluded_terms) : ~Contains(excluded_terms[k], name)

FamilyNames == {"Mammalia", "Aves"}

\* the animal the search returns for a class
AnimalOf(family) == IF family = "Mammalia" THEN Cervus_elaphus ELSE Corvus_corax

\* the species entries the search of a class can return: its animal, one
\* entry the filter removes, one entry without a usable name
SpeciesEntries(family) ==
    {[scientificName |-> Str(AnimalOf(family))],
     [scientificName |-> Str(Bacteria_sp)], [scientificName |-> Null]}

\* what a page request meets: requests.get or raise_for_status raises, the
\* body is not JSON, or the body holds a list of results
RequestError == [kind |-> "RequestException", results |-> <<>>]

NotJson == [kind |-> "Exception", results |-> <<>>]

Page(results) == [kind |-> "page", results |-> results]

Responses(family) ==
    {RequestError, NotJson} \cup {Page(r) : r \in SeqsUpTo(SpeciesEntries(family), MaxPage)}

\* the try block ends in one of the two except clauses
PageRaises(resp) ==
    \/ resp.kind # "page"
    \/ \E k \in 1..Len(resp.results) : LegitRaises(resp.results[k])

\* batch = [sp for sp in results if is_legit_species(sp)]
Batch(results) == SelectSeq(results, is_legit_species)

\* the condition of the while loop
LoopCondition == Len(all_species) < per_family /\ fetched < max_records

\* a variant that stores everything collected
Stored_All(species, n) == species

\* all_species[:per_family]
Stored(species, n) == SubSeq(species, 1, IF Len(species) < n THEN Len(species) ELSE n)

\* a variant where an error ends the for loop over the families
AfterError_LeavesAll(index, n) == n + 1

\* break: the families loop goes on with the family after this one
AfterError(index, n) == index + 1

BatchWrites == {"ok", "unwritable", "truncated"}

\* gbif_full_batch.json after the export, whose errors are logged only
ExportBatch(results, write, old) ==
    CASE write = "ok" -> JsonObject(results)
      [] write = "truncated" -> Garbage
      [] OTHER -> old

\* fetch_all_animals_for_families(families, per_family, max_records) is called
CallFetchAll ==
    /\ fpc = "idle"
    /\ \E fams \in SeqsUpTo(FamilyNames, MaxFamilies), pf \in 0..MaxPerFamily,
          mr \in 0..MaxRecords :
            /\ families' = fams
            /\ per_family' = pf
            /\ max_records' = mr
            /\ fpc' = IF fams = <<>> THEN "export" ELSE "loop"
    /\ family_index' = 1
    /\ all_species' = <<>>
    /\ offset' = 0
    /\ fetched' = 0
    /\ scanned' = 0
    /\ results_by_family' = <<>>
    /\ trace' = <<>>
    /\ UNCHANGED <<batch_file, batch_log, vvars, tvars, svars, pvars>>

\* the while loop of the family is left: results_by_family[family] is set and
\* the for loop goes on at position `next`
EndFamily(species, off, error, next) ==
    LET family == families[family_index]
    IN  /\ results_by_family' =
                [n \in DOMAIN results_by_family \cup {family} |->
                    IF n = family THEN Stored(species, per_family)
                    ELSE results_by_family[n]]
        /\ trace' = Append(trace, [family |-> family, collected |-> species,
                                   offset |-> off, error |-> error])
        /\ family_index' = next
        /\ all_species' = <<>>
        /\ offset' = 0
        /\ fetched' = 0
        /\ scanned' = 0
        /\ fpc' = IF next > Len(families) THEN "export" ELSE "loop"

\* one pass of the while loop: the page request and what follows it
RequestPage ==
    /\ fpc = "loop"
    /\ LoopCondition
    /\ \E resp \in Responses(families[family_index]) :
            IF PageRaises(resp)
            THEN EndFamily(all_species, offset, TRUE,
                           AfterError(family_index, Len(families)))
            ELSE LET batch == Batch(resp.results)
                 IN  IF batch = <<>>
                     THEN EndFamily(all_species, offset + 100, FALSE, family_index + 1)
                     ELSE /\ all_species' = all_species \o batch
                          /\ fetched' = fetched + Len(batch)
                          /\ offset' = offset + 100
                          /\ scanned' = scanned + Len(resp.results)
                          /\ UNCHANGED <<fpc, family_index, results_by_family, trace>>
    /\ UNCHANGED <<families, per_family, max_records, batch_file, batch_log,
                   vvars, tvars, svars, pvars>>

\* the condition of the while loop is false
LeaveLoop ==
    /\ fpc = "loop"
    /\ ~LoopCondition
    /\ EndFamily(all_species, offset, FALSE, family_index + 1)
    /\ UNCHANGED <<families, per_family, max_records, batch_file, batch_log,
                   vvars, tvars, svars, pvars>>

\* the export of results_by_family to gbif_full_batch.json
Export ==
    /\ fpc = "export"
    /\ \E write \in BatchWrites :
            /\ batch_file' = ExportBatch(results_by_family, write, batch_file)
            /\ batch_log' = IF write = "ok" THEN "exported" ELSE "write_error"
    /\ fpc' = "done"
    /\ UNCHANGED <<families, per_family, max_records, family_index, all_species, offset,
                   fetched, results_by_family, scanned, trace,
                   vvars, tvars, svars, pvars>>

NextFetchAll == CallFetchAll \/ RequestPage \/ LeaveLoop \/ Export

SpecFetchAll == Init /\ [][NextFetchAll]_vars

\* a call that has started goes on: every request returns or raises within
\* Config.HTTP_TIMEOUT
SpecFetchAllFair == SpecFetchAll /\ WF_vars(NextFetchAll)

(***************************************************************************)
(* Vocabulary of the claims about the validator.                           *)
(***************************************************************************)
\* the latest call read an array all of whose items are mappings
CalledOnMappings ==
    /\ vstatus # "idle"
    /\ json_file.kind = "array"
    /\ \A i \in 1..Len(json_file.items) : IsMapping(json_file.items[i])

InAccepted(item) == \E k \in 1..Len(accepted) : accepted[k] = ModelDump(item)
InRejected(item) == \E k \in 1..Len(rejected) : rejected[k].record = item

RejectedIndexes == {rejected[k].index : k \in 1..Len(rejected)}

\* the input items at the positions no rejection entry names, in input order
RECURSIVE NotRejectedFrom(_, _)
NotRejectedFrom(items, i) ==
    IF i > Len(items) THEN <<>>
    ELSE (IF (i - 1) \in RejectedIndexes THEN <<>> ELSE <<items[i]>>)
            \o NotRejectedFrom(items, i + 1)

\* the schema's rules other than the one on statutUICN, as section 4.1 states them
OtherFieldsValid(item) ==
    /\ "nom" \in DOMAIN item
    /\ item["nom"].t = "str"
    /\ \A f \in (FieldSet \ {"nom", "statutUICN"}) \cap DOMAIN item :
            item[f].t \in {"str", "null"}

\* the error text names an unknown statut together with the offending value
SaysUnknownStatut(error, value) ==
    \E n \in 1..Len(error) :
        /\ error[n].msg = "Value error, Statut UICN inconnu"
        /\ error[n].loc = "statutUICN"
        /\ error[n].input = value

HasStatut(item, s) == "statutUICN" \in DOMAIN item /\ item["statutUICN"] = Str(s)

(***************************************************************************)
(* C1: for every input array of mappings, each input record is in exactly  *)
(* one of accepted and rejected, and len(accepted) + len(rejected) equals  *)
(* len(input).                                                             *)
(***************************************************************************)
C1_Partition ==
    CalledOnMappings =>
        /\ vstatus = "returned"
        /\ Len(accepted) + Len(rejected) = Len(json_file.items)
        /\ \A i \in 1..Len(json_file.items) :
                InAccepted(json_file.items[i]) # InRejected(json_file.items[i])

C1_Witness ==
    /\ CalledOnMappings
    /\ Len(json_file.items) = 2
    /\ Len(accepted) = 1
    /\ Len(rejected) = 1

(***************************************************************************)
(* C2: accepted records keep the input's relative order, rejected entries  *)
(* come in increasing index order, and each rejected entry holds the       *)
(* zero-based input position of its record and the unmodified input        *)
(* mapping found there.                                                    *)
(***************************************************************************)
C2_OrderAndIndex ==
    CalledOnMappings =>
        /\ \A k \in 1..Len(rejected) :
                /\ rejected[k].index \in 0..(Len(json_file.items) - 1)
                /\ rejected[k].record = json_file.items[rejected[k].index + 1]
        /\ \A k \in 1..(Len(rejected) - 1) : rejected[k].index < rejected[k + 1].index
        /\ LET kept == NotRejectedFrom(json_file.items, 1)
           IN  /\ Len(accepted) = Len(kept)
               /\ \A k \in 1..Len(kept) : accepted[k] = ModelDump(kept[k])

C2_Witness ==
    /\ CalledOnMappings
    /\ Len(rejected) = 2
    /\ rejected[1].record # rejected[2].record
    /\ rejected[2].index = 1

(***************************************************************************)
(* C3: a record with statutUICN "LC" and every other field valid is        *)
(* accepted; a record with statutUICN "XX" is rejected, its rejection's    *)
(* error text names the unknown statut with the value XX, and an input     *)
(* holding only that record gives one rejection and no accepted record.    *)
(***************************************************************************)
C3_EnumLaw ==
    CalledOnMappings =>
        \A i \in 1..Len(json_file.items) :
            LET item == json_file.items[i]
            IN  /\ (HasStatut(item, "LC") /\ OtherFieldsValid(item)) =>
                        (InAccepted(item) /\ ~InRejected(item))
                /\ HasStatut(item, "XX") =>
                        /\ ~InAccepted(item)
                        /\ \E k \in 1..Len(rejected) :
                                /\ rejected[k].index = i - 1
                                /\ rejected[k].record = item
                                /\ SaysUnknownStatut(rejected[k].error, Str("XX"))
                        /\ Len(json_file.items) = 1 =>
                                (Len(rejected) = 1 /\ accepted = <<>>)

\* test_validate_animals_invalid, and the valid record accepted beside it
C3_Witness ==
    /\ CalledOnMappings
    /\ json_file.items = <<invalid_data, valid_data>>
    /\ Len(rejected) = 1
    /\ accepted = <<ModelDump(valid_data)>>

(***************************************************************************)
(* C4: a record whose statutUICN is present and non-null is accepted only  *)
(* if that value is one of EX, EW, CR, EN, VU, NT, LC, DD.                 *)
(***************************************************************************)
C4_EnumMembership ==
    CalledOnMappings =>
        \A i \in 1..Len(json_file.items) :
            LET item == json_file.items[i]
            IN  ("statutUICN" \in DOMAIN item /\ item["statutUICN"] # Null
                    /\ InAccepted(item))
                    => \E s \in StatutSet : item["statutUICN"] = Str(s)

(***************************************************************************)
(* C5: a record in which nom is missing, null or the empty string is       *)
(* rejected and never appears in the accepted list.                        *)
(***************************************************************************)
C5_RequiredField ==
    CalledOnMappings =>
        \A i \in 1..Len(json_file.items) :
            LET item == json_file.items[i]
            IN  ("nom" \notin DOMAIN item \/ item["nom"] = Null \/ item["nom"] = Str(""))
                    => (InRejected(item) /\ ~InAccepted(item))

(***************************************************************************)
(* C6 as claimed: every rejected entry carries a tag that names the        *)
(* violated rule: MissingRequiredField when nom is absent, TypeMismatch    *)
(* when a field has a wrong type, InvalidEnumValue when statutUICN is      *)
(* outside the enumeration.                                                *)
(***************************************************************************)
C6_RuleTags ==
    CalledOnMappings =>
        \A k \in 1..Len(rejected) :
            /\ rejected[k].error_type \in
                    {"MissingRequiredField", "TypeMismatch", "InvalidEnumValue"}
            /\ "nom" \notin DOMAIN rejected[k].record =>
                    rejected[k].error_type = "MissingRequiredField"

(***************************************************************************)
(* C6 as amended: every rejected entry of a mapping carries the one tag    *)
(* ValidationError whatever rule was violated; the violated rules are      *)
(* named by the lines of its error text: a "missing" line for nom exactly  *)
(* when nom is absent, a "string_type" line for a field exactly when it    *)
(* holds a value of a wrong type, a "value_error" line for statutUICN      *)
(* exactly when it holds a non-empty string outside the enumeration.       *)
(***************************************************************************)
HasLine(error, loc, type) ==
    \E n \in 1..Len(error) : error[n].loc = loc /\ error[n].type = type

C6_OneTagRulesInText ==
    CalledOnMappings =>
        \A k \in 1..Len(rejected) :
            LET item == rejected[k].record
                error == rejected[k].error
            IN  /\ rejected[k].error_type = "ValidationError"
                /\ error # <<>>
                /\ HasLine(error, "nom", "missing") <=> "nom" \notin DOMAIN item
                /\ \A f \in FieldSet :
                        HasLine(error, f, "string_type") <=>
                            /\ f \in DOMAIN item
                            /\ item[f].t # "str"
                            /\ (f = "nom" \/ item[f].t # "null")
                /\ HasLine(error, "statutUICN", "value_error") <=>
                        /\ "statutUICN" \in DOMAIN item
                        /\ item["statutUICN"].t = "str"
                        /\ item["statutUICN"].v # ""
                        /\ item["statutUICN"].v \notin StatutSet

\* two rejections for two different rules in one run, one tag
C6_Witness ==
    /\ CalledOnMappings
    /\ Len(rejected) = 2
    /\ HasLine(rejected[1].error, "nom", "missing")
    /\ ~HasLine(rejected[1].error, "statutUICN", "value_error")
    /\ HasLine(rejected[2].error, "statutUICN", "value_error")
    /\ ~HasLine(rejected[2].error, "nom", "missing")
    /\ rejected[1].error_type = rejected[2].error_type

(***************************************************************************)
(* C7: for every input array of mappings validate_animals does not raise,  *)
(* every invalid record is captured in the rejected list, and every record *)
(* after an invalid one is still validated.                                *)
(***************************************************************************)
C7_NoAbort ==
    CalledOnMappings =>
        /\ vstatus = "returned"
        /\ \A i \in 1..Len(json_file.items) :
                ~Accepts(json_file.items[i]) =>
                    /\ \E k \in 1..Len(rejected) :
                            /\ rejected[k].index = i - 1
                            /\ rejected[k].record = json_file.items[i]
                    /\ \A j \in (i + 1)..Len(json_file.items) :
                            \/ InAccepted(json_file.items[j])
                            \/ \E k \in 1..Len(rejected) : rejected[k].index = j - 1

\* an invalid record first, a valid one after it, and a failing write
C7_Witness ==
    /\ CalledOnMappings
    /\ vstatus = "returned"
    /\ Len(json_file.items) = 2
    /\ ~Accepts(json_file.items[1])
    /\ Accepts(json_file.items[2])
    /\ InAccepted(json_file.items[2])
    /\ validated_file = Absent

(***************************************************************************)
(* C9: after any sequence of validate_animals runs into the same output    *)
(* directory, animals_validation_errors.json exists exactly when the most  *)
(* recent run rejected at least one record (a run that rejects nothing,    *)
(* an empty input array included, leaves no errors artifact).  Runs whose  *)
(* read or write failed are left out of the statement.                     *)
(***************************************************************************)
C9_ErrorsFileIffRejections ==
    (vstatus = "returned" /\ vlog = "") =>
        /\ Exists(errors_file) <=> rejected # <<>>
        /\ json_file = JsonArray(<<>>) => (accepted = <<>> /\ rejected = <<>>)

(***************************************************************************)
(* Vocabulary of the claims about run_pipeline.                            *)
(***************************************************************************)
\* the run in progress (or just ended) has called the stage's function
Invoked(stage) == \E k \in 1..Len(invoked) : invoked[k] = stage

\* the run cannot end, or has not ended, in success
RunFails == pc = "done" => result = "False"

(***************************************************************************)
(* C8: when the Validator's input cannot be read or parsed as a sequence   *)
(* of mappings, the Validate stage aborts on a hard error and the run      *)
(* transitions to Failed without invoking Send.                            *)
(***************************************************************************)
C8_UnreadableInputFailsRun ==
    (Invoked("validate") /\ vstatus = "aborted") =>
        /\ ~Invoked("send")
        /\ RunFails

(***************************************************************************)
(* C10: if the Transform stage of a run produces zero records, the run     *)
(* reports failure and send_animals_to_api is never invoked in it.         *)
(***************************************************************************)
C10_ZeroTransformedHalts ==
    (Invoked("transform") /\ transformed = <<>>) =>
        /\ ~Invoked("send")
        /\ RunFails

(***************************************************************************)
(* C11: within one run_pipeline call the stages are invoked in the order   *)
(* fetch, transform, validate, send, each at most once; a stage is invoked *)
(* only when the block before it has passed its check; a run that has      *)
(* returned False invokes nothing more (only the exit of the process and a *)
(* new call follow, and the new call starts again at fetch with nothing    *)
(* invoked); and a run returns True only after all four stages were        *)
(* invoked in it.                                                          *)
(***************************************************************************)
Stages == <<"fetch", "transform", "validate", "send">>

IsPrefix(p, q) == Len(p) <= Len(q) /\ \A k \in 1..Len(p) : p[k] = q[k]

StageIndex(stage) == CHOOSE k \in 1..Len(Stages) : Stages[k] = stage

\* the block after the block of `stage`, "done" after the last
NextStage(stage) ==
    IF StageIndex(stage) = Len(Stages) THEN "done" ELSE Stages[StageIndex(stage) + 1]

C11_OrderInState ==
    /\ IsPrefix(invoked, Stages)
    /\ result = "True" => (pc = "done" /\ invoked = Stages)
    /\ result = "False" =>
            /\ pc = "done"
            /\ failed_stage \in {Stages[k] : k \in 1..Len(Stages)}
            /\ Len(invoked) <= StageIndex(failed_stage)
    /\ pc \in {"transform", "validate", "send"} =>
            (result = "none" /\ Len(invoked) = StageIndex(pc) - 1)

C11_OrderInStep ==
    /\ (invoked' # invoked /\ invoked' # <<>>) => invoked' = Append(invoked, pc)
    /\ pc \in {"idle", "done"} =>
            \/ pc' = "fetch" /\ invoked' = <<>> /\ result' = "none"
            \/ pc' = pc /\ invoked' = invoked /\ result' = result
    /\ pc \notin {"idle", "done"} =>
            /\ pc' \in {NextStage(pc), "done"}
            /\ pc' # "done" => (result' = "none" /\ invoked' = Append(invoked, pc))
            /\ (pc' = "done" /\ pc # "send") => result' = "False"

C11_StrictStageOrder == [](C11_OrderInState) /\ [][C11_OrderInStep]_vars

\* a run that went through the four stages and returned True
C11_Witness ==
    /\ pc = "done"
    /\ result = "True"
    /\ invoked = Stages
    /\ posted # <<>>

(***************************************************************************)
(* C12: when the Transform stage of a run yields zero records, the run     *)
(* fails in the Transform block: validate_animals is not invoked in that   *)
(* run and the stage reported as failing is Transform.                     *)
(***************************************************************************)
C12_ZeroTransformedFailsInTransform ==
    (Invoked("transform") /\ transformed = <<>>) =>
        /\ ~Invoked("validate")
        /\ pc = "done" => failed_stage = "transform"

(***************************************************************************)
(* C13: if the Fetch stage of a run cannot reach the source API or gets no *)
(* result, so that the fetch of this run writes no raw file, the run       *)
(* returns False and invokes neither Transform, Validate nor Send,         *)
(* whatever files earlier runs left on disk.                               *)
(***************************************************************************)
C13_FetchFailureAbortsRun ==
    (Invoked("fetch") /\ fetch_log \in {"network_error", "no_result"}) =>
        /\ ~Invoked("transform")
        /\ ~Invoked("validate")
        /\ ~Invoked("send")
        /\ RunFails

(***************************************************************************)
(* C14: if the Validate stage of a run accepts no record, the run returns  *)
(* False and Send is not invoked in it; Send is only ever invoked with an  *)
(* animals_validated.json that holds at least one record.                  *)
(***************************************************************************)
C14_NothingAcceptedNothingSent ==
    /\ (Invoked("validate") /\ vstatus = "returned" /\ accepted = <<>>) =>
            (~Invoked("send") /\ RunFails)
    /\ (pc = "send" \/ Invoked("send")) => ValidatedUsable(validated_file)

(***************************************************************************)
(* C15: once the Fetch, Transform and Validate blocks of a run have        *)
(* passed (so that Send is invoked on at least one record), run_pipeline   *)
(* returns True whatever the send attempts met: an HTTP error, a timeout   *)
(* or a connection error, on some or on all records.                       *)
(***************************************************************************)
C15_SendFailuresNotFatal ==
    Invoked("send") =>
        /\ pc = "done"
        /\ result = "True"
        /\ failed_stage = ""

\* a run that returned True although its only POST met an error
C15_Witness ==
    /\ Invoked("send")
    /\ result = "True"
    /\ posted # <<>>
    /\ success_count = 0
    /\ Len(error_list) = Len(posted)

(***************************************************************************)
(* Vocabulary of the claims about send_animals_to_api.                     *)
(***************************************************************************)
\* the latest call read an array all of whose items are mappings
SentMappings ==
    /\ send_status # "idle"
    /\ validated_file.kind = "array"
    /\ \A i \in 1..Len(validated_file.items) : IsMapping(validated_file.items[i])

\* the input positions (from 0) whose POST did not count as a success
FailedPositions == {i - 1 : i \in {k \in 1..Len(post_outcomes) : ~IsSuccess(post_outcomes[k])}}

C17_ReportIffFailure ==
    (send_status = "returned" /\ validated_file.kind = "array") =>
        /\ send_log = "report_written" <=> FailedPositions # {}
        /\ FailedPositions = {} => send_errors_file = Absent
        /\ FailedPositions # {} =>
                /\ send_errors_file.kind = "array"
                /\ LET entries == send_errors_file.items
                   IN  /\ Len(entries) = Cardinality(FailedPositions)
                       /\ \A k \in 1..Len(entries) :
                                /\ entries[k].index \in FailedPositions
                                /\ entries[k].animal =
                                        validated_file.items[entries[k].index + 1]
                       /\ \A k \in 1..(Len(entries) - 1) :
                                entries[k].index < entries[k + 1].index

(***************************************************************************)
(* C18: for every HTTP status the API answers, the attempt is recorded in  *)
(* error_list, as an HTTP error with that status code, exactly when the    *)
(* status is not a 2xx one, and is counted in success_count exactly when   *)
(* the status is a 2xx one.                                                *)
(***************************************************************************)
Is2xx(outcome) == outcome.kind = "response" /\ outcome.status_code \in 200..299

\* error_list holds an HTTP error entry for the record at position i (from 1)
RecordedAsHttpError(i) ==
    \E k \in 1..Len(error_list) :
        /\ error_list[k].index = i - 1
        /\ error_list[k].error_type = "HTTP_ERROR"
        /\ error_list[k].status_code = post_outcomes[i].status_code

C18_ErrorIffNon2xx ==
    SentMappings =>
        /\ \A i \in 1..Len(post_outcomes) :
                post_outcomes[i].kind = "response" =>
                    (RecordedAsHttpError(i) <=> ~Is2xx(post_outcomes[i]))
        /\ success_count = Cardinality({i \in 1..Len(post_outcomes) : Is2xx(post_outcomes[i])})

(***************************************************************************)
(* C19: main.py exits with code 0 exactly when run_pipeline returned True  *)
(* and with code 1 exactly when one of the four stages failed; the species *)
(* it runs the pipeline for is its first positional argument, or           *)
(* "Cervus elaphus" when it has none.                                      *)
(***************************************************************************)
C19_ExitCode ==
    /\ exit_code # <<>> =>
            /\ exit_code \in {<<0>>, <<1>>}
            /\ exit_code = <<0>> <=> result = "True"
            /\ exit_code = <<1>> <=> failed_stage \in {Stages[k] : k \in 1..Len(Stages)}
    /\ (pc = "done" /\ result = "True") => failed_stage = ""
    /\ pc # "idle" =>
            animal_name = (IF argv = <<>> THEN "Cervus elaphus" ELSE argv[1])

\* a failed run of the default species, exited with 1, after a successful run
\* of the species given as argument
C19_Witness ==
    /\ exit_code = <<1>>
    /\ argv = <<>>
    /\ animal_name = "Cervus elaphus"
    /\ result = "False"
    /\ validated_file.kind = "array"
    /\ \E k \in 1..Len(validated_file.items) :
            validated_file.items[k].nom = Str("Panthera tigris")

(***************************************************************************)
(* C20: for every raw list of mappings, transform_gbif_species returns     *)
(* records whose nom values are pairwise distinct and non-empty: for each  *)
(* scientificName the record of its first occurrence is kept and every     *)
(* later one dropped, items whose scientificName is missing or empty are   *)
(* dropped, and the kept records are in input order; normalizing the       *)
(* input followed by itself gives the same records.                        *)
(***************************************************************************)
ScientificName(item) == Get(item, "scientificName")

\* the positions of raw holding the first occurrence of a non-empty name
FirstOccurrences(raw) ==
    {i \in 1..Len(raw) :
        /\ Truthy(ScientificName(raw[i]))
        /\ \A j \in 1..(i - 1) : ScientificName(raw[j]) # ScientificName(raw[i])}

C20_FirstOccurrenceWins ==
    (tstatus # "idle" /\ \A i \in 1..Len(raw_data) : IsMapping(raw_data[i])) =>
        /\ tstatus = "returned"
        /\ \A a, b \in 1..Len(transformed) :
                a # b => transformed[a].nom # transformed[b].nom
        /\ \A a \in 1..Len(transformed) :
                transformed[a].nom \notin {Null, Str(""), Missing}
        /\ \E at \in [1..Len(transformed) -> 1..Len(raw_data)] :
                /\ {at[k] : k \in 1..Len(transformed)} = FirstOccurrences(raw_data)
                /\ \A k \in 1..(Len(transformed) - 1) : at[k] < at[k + 1]
                /\ \A k \in 1..Len(transformed) :
                        transformed[k] =
                            NormalRecord(raw_data[at[k]], ScientificName(raw_data[at[k]]))
        /\ transform_gbif_species(raw_data \o raw_data).records = transformed

\* A, A with another content, B: exactly the first A, then B
C20_Witness ==
    /\ tstatus = "returned"
    /\ Len(raw_data) = 3
    /\ ScientificName(raw_data[1]) = Str("Cervus elaphus")
    /\ ScientificName(raw_data[2]) = Str("Cervus elaphus")
    /\ raw_data[1] # raw_data[2]
    /\ ScientificName(raw_data[3]) = Str("Panthera tigris")
    /\ Len(transformed) = 2
    /\ transformed[1].famille = Get(raw_data[1], "family")
    /\ transformed[2].nom = Str("Panthera tigris")

(***************************************************************************)
(* C21: every record transform_gbif_species outputs has exactly the nine   *)
(* fields nom, nom_commun, rang, statutUICN, ordre, famille, genre,        *)
(* descriptions, imageUrl, in that order, mapped from scientificName,      *)
(* vernacularName, rank, order, family, genus and description of the raw   *)
(* record, with statutUICN and imageUrl null; and the output the test      *)
(* expects for its full raw record is what the function returns.           *)
(***************************************************************************)
\* the raw key a field of the record is taken from
RawKeyOf ==
    [nom |-> "scientificName", nom_commun |-> "vernacularName", rang |-> "rank",
     ordre |-> "order", famille |-> "family", genre |-> "genus",
     descriptions |-> "description"]

\* the record is built from the raw item: each field is the raw value, or
\* null where the raw value is missing or empty
BuiltFrom(record, item) ==
    \A f \in DOMAIN RawKeyOf :
        \/ record[f] = Get(item, RawKeyOf[f])
        \/ record[f] = Null /\ ~Truthy(Get(item, RawKeyOf[f]))

C21_NineFieldsInOrder ==
    tstatus = "returned" =>
        /\ RecordKeys = Fields
        /\ \A k \in 1..Len(transformed) :
                /\ DOMAIN transformed[k] = FieldSet
                /\ transformed[k].statutUICN = Null
                /\ transformed[k].imageUrl = Null
                /\ \E i \in 1..Len(raw_data) : BuiltFrom(transformed[k], raw_data[i])
        /\ raw_data = <<test_raw_data>> => transformed = <<test_expected>>

(***************************************************************************)
(* C22: every record transform_gbif_species builds from raw records whose  *)
(* fields are strings or null is accepted by the validator:                *)
(* validate_animals on the transformed list rejects nothing and accepts    *)
(* the records as they are, in order.                                      *)
(***************************************************************************)
\* every item is a mapping whose values are strings or null
StringsOrNull(raw) ==
    \A i \in 1..Len(raw) :
        /\ IsMapping(raw[i])
        /\ \A key \in DOMAIN raw[i] : raw[i][key].t \in {"str", "null"}

C22_NormalizedIsAccepted ==
    (tstatus # "idle" /\ StringsOrNull(raw_data)) =>
        /\ tstatus = "returned"
        /\ \A k \in 1..Len(transformed) : Accepts(transformed[k])
        /\ LET v == validate_animals(JsonArray(transformed), "ok", Absent, Absent)
           IN  /\ v.status = "returned"
               /\ v.rejected = <<>>
               /\ v.accepted = transformed
               /\ v.errors_file = Absent

\* the raw record of the test and another species: two records, both accepted
C22_Witness ==
    /\ tstatus = "returned"
    /\ StringsOrNull(raw_data)
    /\ Len(raw_data) = 2
    /\ raw_data[1] = test_raw_data
    /\ Len(transformed) = 2
    /\ transformed[1].nom = Str("Cervus elaphus")
    /\ transformed[1].statutUICN = Null
    /\ Accepts(transformed[1])

(***************************************************************************)
(* C23: each accepted record is the canonical record of its input record:  *)
(* it has the nine fields of the schema, a field the input holds has the   *)
(* input's value, a field the input lacks is null, and keys of the input   *)
(* that are no field of the schema are ignored: they do not appear in the  *)
(* accepted record and no rejection is about them.                         *)
(***************************************************************************)
C23_CanonicalRecord ==
    CalledOnMappings =>
        /\ LET kept == NotRejectedFrom(json_file.items, 1)
           IN  /\ Len(accepted) = Len(kept)
               /\ \A k \in 1..Len(kept) :
                        /\ DOMAIN accepted[k] = FieldSet
                        /\ \A f \in FieldSet :
                                accepted[k][f] =
                                    (IF f \in DOMAIN kept[k] THEN kept[k][f] ELSE Null)
        /\ \A k \in 1..Len(rejected) :
                /\ \A n \in 1..Len(rejected[k].error) : rejected[k].error[n].loc \in FieldSet
                /\ ~Accepts([f \in FieldSet \cap DOMAIN rejected[k].record |->
                                rejected[k].record[f]])

\* valid_data of the tests: the key nom_commum is no field, nom_commun is absent
C23_Witness ==
    /\ CalledOnMappings
    /\ json_file.items = <<valid_data>>
    /\ Len(accepted) = 1
    /\ "nom_commum" \in DOMAIN json_file.items[1]
    /\ "nom_commum" \notin DOMAIN accepted[1]
    /\ "nom_commun" \notin DOMAIN json_file.items[1]
    /\ accepted[1].nom_commun = Null

(***************************************************************************)
(* C24: validate_animals is deterministic and its re-invocation is         *)
(* idempotent: a call on the input of the call before it ends the same way *)
(* with the same accepted list and the same rejected list in the same      *)
(* order, whatever the file system does to its writes; and when the writes *)
(* of both calls went through, it leaves animals_validated.json and        *)
(* animals_validation_errors.json with the content the call before left.   *)
(***************************************************************************)
C24_SameInputSameOutcome ==
    (vstatus # "idle" /\ json_file' = json_file /\ invocations' = invocations + 1) =>
        /\ vstatus' = vstatus
        /\ accepted' = accepted
        /\ rejected' = rejected
        /\ (vlog = "" /\ vlog' = "") =>
                (validated_file' = validated_file /\ errors_file' = errors_file)

C24_Deterministic == [][C24_SameInputSameOutcome]_vars

\* a third run in a row on an input with one valid and one invalid record
C24_Witness ==
    /\ invocations = 3
    /\ vstatus = "returned"
    /\ vlog = ""
    /\ Len(accepted) = 1
    /\ Len(rejected) = 1
    /\ validated_file = JsonArray(accepted)
    /\ errors_file = JsonArray(rejected)

\* C25: a stage never rewrites the artifact of an earlier stage: the Validate
\* stage leaves the raw and the normalized artifacts as they were, the Send
\* stage leaves the raw, normalized and validated artifacts as they were.
C25_ForwardOnly ==
    /\ (pc = "validate" /\ pc' # "validate") =>
            (raw_file' = raw_file /\ transformed_file' = transformed_file)
    /\ (pc = "send" /\ pc' # "send") =>
            /\ raw_file' = raw_file
            /\ transformed_file' = transformed_file
            /\ validated_file' = validated_file

C25_EarlierArtifactsUntouched == [][C25_ForwardOnly]_vars

\* a run went through Validate and Send, Send wrote send_errors.json, and the
\* validated artifact differs from what send_errors.json holds
C25_Witness ==
    /\ pc = "done"
    /\ invoked = <<"fetch", "transform", "validate", "send">>
    /\ error_list # <<>>
    /\ send_errors_file = JsonArray(error_list)
    /\ validated_file = JsonArray(accepted)
    /\ accepted # <<>>
    /\ transformed_file[animal_name] = JsonArray(transformed)
    /\ send_errors_file # validated_file

\* the detail responses the source API can give for the species of the run
DetailResponses == {JsonObject(d) : d \in RawDetails(animal_name)}

\* C27: fetch_gbif_animal_detail writes gbif_<name>.json only when the search
\* gave a result and the detail request succeeded, and the file then holds
\* the detail response; when the search gives no result or a request fails
\* it writes nothing, raises nothing and leaves an existing file as it was.
C27_FetchStep ==
    (pc = "fetch" /\ pc' # "fetch") =>
        /\ fetch_log' # ""
        /\ (raw_file' # raw_file) => fetch_log' \in {"saved", "write_error"}
        /\ (fetch_log' \in {"saved", "write_error"}) =>
                raw_file'[animal_name] \in DetailResponses
        /\ (fetch_log' \in {"no_result", "network_error"}) => raw_file' = raw_file

C27_RawFileOnlyOnSuccess == [][C27_FetchStep]_vars

\* C28: every record the Send stage of a run posts was accepted by the
\* Validate stage of the same run, also when validate_animals cannot read its
\* input or cannot write its output while an animals_validated.json of an
\* earlier run is on disk.
C28_SentWasAcceptedInThisRun ==
    Invoked("send") =>
        \A k \in 1..Len(posted) : \E j \in 1..Len(accepted) : posted[k] = accepted[j]

(***************************************************************************)
(* Vocabulary of the claims about the batch fetch.                         *)
(***************************************************************************)
\* the last position at which a family occurs in the list of families
LastOf(family) ==
    CHOOSE i \in 1..Len(families) :
        /\ families[i] = family
        /\ \A j \in (i + 1)..Len(families) : families[j] # family

\* the first n elements of a list
FirstN(species, n) == [k \in 1..(IF Len(species) < n THEN Len(species) ELSE n) |-> species[k]]

\* C26: a request error while one family is fetched ends the fetch of that
\* family only: every family of the list is handled, every later family is
\* still requested, and gbif_full_batch.json, when its write goes through,
\* has an entry for every family, the entry of the failed family holding
\* the species collected before the error.
C26_ErrorAbandonsOneFamily ==
    (fpc = "done" /\ \E i \in 1..Len(trace) : trace[i].error) =>
        /\ Len(trace) = Len(families)
        /\ \A i \in 1..Len(trace) :
                /\ trace[i].family = families[i]
                /\ (per_family > 0 /\ max_records > 0) =>
                        (trace[i].error \/ trace[i].offset > 0)
        /\ batch_log = "exported" =>
                /\ batch_file.kind = "object"
                /\ DOMAIN batch_file.items[1] = {families[i] : i \in 1..Len(families)}
                /\ \A f \in DOMAIN batch_file.items[1] :
                        batch_file.items[1][f] =
                            FirstN(trace[LastOf(f)].collected, per_family)

\* the first family met an error after one species, the second was fetched
\* and both are in the exported file
C26_Witness ==
    /\ fpc = "done"
    /\ batch_log = "exported"
    /\ Len(families) = 2
    /\ families[1] # families[2]
    /\ Len(trace) = 2
    /\ trace[1].error
    /\ Len(trace[1].collected) = 1
    /\ ~trace[2].error
    /\ batch_file.items[1][families[1]] = <<[scientificName |-> Str(AnimalOf(families[1]))]>>
    /\ Len(batch_file.items[1][families[2]]) = 2

\* C29: the while loop of every family ends, whatever the pages and errors,
\* and the list stored for a family holds at most per_family species.
C29_LoopEndsAndStoresAtMost ==
    /\ [](\A f \in DOMAIN results_by_family : Len(results_by_family[f]) <= per_family)
    /\ \A i \in 1..MaxFamilies :
            (fpc = "loop" /\ family_index = i) ~> ~(fpc = "loop" /\ family_index = i)

\* a family whose pages gave more species than per_family, cut when stored
C29_Witness ==
    /\ fpc = "done"
    /\ \E i \in 1..Len(trace) :
            /\ Len(trace[i].collected) > per_family
            /\ trace[i].offset >= 200
            /\ Len(results_by_family[trace[i].family]) = per_family

\* C30: no further page is requested for a family once max_records records
\* returned by the API were scanned for it, the records the filter removed
\* counted.
C30_ScanBound ==
    (fpc = "loop" /\ LoopCondition) => scanned < max_records

====
